---- MODULE Spec2Model ----
(***************************************************************************)
(* cli-wallet: the command handlers of src/command/account.rs and          *)
(* src/command/account_manager.rs.                                         *)
(*                                                                         *)
(* A handler is a straight-line async function: it converts its string     *)
(* arguments into request values, awaits SDK calls and leaves through `?`  *)
(* on the first error.  One invocation is modelled from its start to its   *)
(* return; every await is one step whose outcome (Ok or Err) the SDK       *)
(* chooses.  `calls` is the list of SDK operations the running invocation  *)
(* has awaited so far, in order, with argument, outcome and return value.  *)
(*                                                                         *)
(* Strings the handlers parse are sequences of one-character strings.      *)
(***************************************************************************)
EXTENDS Integers, Sequences, FiniteSets, TLC

VARIABLES wallet, wallet0, cmd, args, pc, local, calls, result

vars == <<wallet, wallet0, cmd, args, pc, local, calls, result>>

(***************************************************************************)
(* Bounds of the model.                                                    *)
(***************************************************************************)
\* the account holds at most this many addresses
MaxAddresses == 2
\* the account has issued at most this many transactions
MaxTxs == 1
\* the manager holds at most this many accounts
MaxAccounts == 1

(***************************************************************************)
(* Option<T>                                                               *)
(***************************************************************************)
None == [some |-> FALSE]
Some(v) == [some |-> TRUE, v |-> v]
Option(S) == {None} \cup {Some(v) : v \in S}

\* a string of n copies of the character c
Chars(n, c) == [i \in 1..n |-> c]

(***************************************************************************)
(* Conversions of user strings into SDK request types.                     *)
(***************************************************************************)
ConvOk(v) == [ok |-> TRUE, v |-> v]
ConvErr(e) == [ok |-> FALSE, err |-> e]

DecDigits == {"0", "1", "2", "3", "4", "5", "6", "7", "8", "9"}

\* U256::MAX = 2^256 - 1 in decimal, 78 digits
U256Max == <<"1","1","5","7","9","2","0","8","9","2","3","7","3","1","6","1","9","5","4","2","3","5","7","0","9","8","5","0","0","8","6","8","7","9","0","7","8","5","3","2","6","9","9","8","4","6","6","5","6","4","0","5","6","4","0","3","9","4","5","7","5","8","4","0","0","7","9","1","3","1","2","9","6","3","9","9","3","5">>

DigitVal(c) ==
    CASE c = "0" -> 0 [] c = "1" -> 1 [] c = "2" -> 2 [] c = "3" -> 3
      [] c = "4" -> 4 [] c = "5" -> 5 [] c = "6" -> 6 [] c = "7" -> 7
      [] c = "8" -> 8 [] c = "9" -> 9

\* the least element of a non-empty set of numbers
Least(S) == CHOOSE i \in S : \A j \in S : i <= j

\* a decimal numeral without its leading zeros (zero is the empty numeral)
StripZeros(d) ==
    LET nonzero == {i \in 1..Len(d) : d[i] # "0"} IN
    IF nonzero = {} THEN <<>> ELSE SubSeq(d, Least(nonzero), Len(d))

\* a > b for numerals of equal length, most significant digit first
NumeralGreater(a, b) ==
    \E i \in 1..Len(a) :
        /\ DigitVal(a[i]) > DigitVal(b[i])
        /\ \A j \in 1..(i - 1) : a[j] = b[j]

\* the value of the numeral d does not fit 256 bits
ExceedsU256(d) ==
    LET n == StripZeros(d) IN
    \/ Len(n) > Len(U256Max)
    \/ Len(n) = Len(U256Max) /\ NumeralGreater(n, U256Max)

\* U256::from_dec_str: the bytes are consumed left to right; a byte that is
\* no decimal digit is InvalidCharacter, an accumulated value that leaves
\* 256 bits is InvalidLength; the empty string is zero.  The value is kept
\* as its canonical numeral.
FromDecStr(s) ==
    LET stops == { i \in 1..Len(s) :
                     \/ s[i] \notin DecDigits
                     \/ /\ \A j \in 1..i : s[j] \in DecDigits
                        /\ ExceedsU256(SubSeq(s, 1, i)) }
    IN  IF stops = {} THEN ConvOk(StripZeros(s))
        ELSE IF s[Least(stops)] \notin DecDigits THEN ConvErr("InvalidCharacter")
        ELSE ConvErr("InvalidLength")

HexDigits == DecDigits \cup {"a", "b", "c", "d", "e", "f"} \cup {"A", "B", "C", "D", "E", "F"}

HexVal(c) ==
    IF c \in DecDigits THEN DigitVal(c)
    ELSE CASE c \in {"a", "A"} -> 10 [] c \in {"b", "B"} -> 11
           [] c \in {"c", "C"} -> 12 [] c \in {"d", "D"} -> 13
           [] c \in {"e", "E"} -> 14 [] c \in {"f", "F"} -> 15

\* hex::decode: an odd number of digits or a digit that is none is an error;
\* two digits make one byte
HexDecode(h) ==
    IF Len(h) % 2 # 0 THEN ConvErr("OddLength")
    ELSE IF \E i \in 1..Len(h) : h[i] \notin HexDigits THEN ConvErr("InvalidHexCharacter")
    ELSE ConvOk([i \in 1..(Len(h) \div 2) |-> 16 * HexVal(h[2 * i - 1]) + HexVal(h[2 * i])])

HasHexPrefix(s) == Len(s) >= 2 /\ s[1] = "0" /\ s[2] = "x"

\* prefix_hex::decode into Vec<u8>: the string must start with "0x"
PrefixHexDecode(s) ==
    IF ~HasHexPrefix(s) THEN ConvErr("InvalidPrefix")
    ELSE HexDecode(SubSeq(s, 3, Len(s)))

\* prefix_hex::decode into [u8; n]: as above, and exactly 2 * n digits
PrefixHexDecodeArray(s, n) ==
    IF ~HasHexPrefix(s) THEN ConvErr("InvalidPrefix")
    ELSE IF Len(s) - 2 # 2 * n THEN ConvErr("InvalidStringLength")
    ELSE HexDecode(SubSeq(s, 3, Len(s)))

\* bytes of a token id (a foundry id) and of an nft id
TokenIdLength == 38
NftIdLength == 32

\* TokenId::from_str and NftId::from_str
TokenIdFromStr(s) == PrefixHexDecodeArray(s, TokenIdLength)
NftIdFromStr(s) == PrefixHexDecodeArray(s, NftIdLength)

\* str::as_bytes of the characters the metadata inputs use
ByteOf(c) ==
    CASE c = "a" -> 97 [] c = "{" -> 123 [] c = "}" -> 125

AsBytes(s) == [i \in 1..Len(s) |-> ByteOf(s[i])]

\* Address::to_bech32 of the account address with the given key index
ToBech32(address) ==
    <<"r", "m", "s", "1">>
        \o (IF address.internal THEN <<"c">> ELSE <<"p">>)
        \o Chars(address.key_index + 1, "q")

(***************************************************************************)
(* A node url is the sequence of its parts.  ClientOptions::with_node      *)
(* parses it and fails on a string that is no absolute http(s) url.        *)
(***************************************************************************)
DefaultNode == <<"http", "://", "localhost", ":", "14265">>
DefaultFaucetUrl == DefaultNode \o <<"/api/plugins/faucet/v1/enqueue">>

WithNode(url) ==
    IF /\ Len(url) >= 3
       /\ url[1] \in {"http", "https"}
       /\ url[2] = "://"
       /\ url[3] \notin {"", ":", "://"}
    THEN ConvOk([scheme |-> url[1], host |-> url[3], path |-> SubSeq(url, 4, Len(url))])
    ELSE ConvErr("UrlParseError")

(***************************************************************************)
(* Inputs of the commands.                                                 *)
(***************************************************************************)
AddressInputs == {<<"r", "m", "s", "1", "z">>}
AmountInputs == {1, 1000000}
DecInputs ==
    { <<>>, <<"1", "0", "0">>, <<"0", "0", "7">>, <<"1", "x">>, U256Max,
      Chars(Len(U256Max), "9") }
HexInputs ==
    { <<"0", "x">>, <<"0", "x", "A", "b">>, <<"0", "x", "1">>, <<"0", "1">>,
      <<"0", "x", "g", "0">> }
MetadataInputs == {<<"{", "a", "}">>}
TokenIdInputs ==
    { <<"0", "x", "0", "8">> \o Chars(2 * TokenIdLength - 2, "e"),
      Chars(2 * TokenIdLength, "0"),
      <<"0", "x">> \o Chars(2 * NftIdLength, "0"),
      <<"0", "x">> \o Chars(2 * TokenIdLength, "g") }
NftIdInputs ==
    { <<"0", "x">> \o Chars(2 * NftIdLength, "F"),
      <<"0", "x">> \o Chars(2 * NftIdLength - 1, "0"),
      <<"n", "f", "t">> }
FaucetUrlInputs == {<<"https", "://", "faucet.example", "/enqueue">>}
NodeInputs == {<<"https", "://", "node.example">>, <<"node.example">>}
MnemonicInputs == {"given mnemonic"}
GeneratedMnemonics == {"generated mnemonic 1", "generated mnemonic 2"}
SecretManagers == {"Stronghold", "Mnemonic"}
AliasInputs == {"main"}

NoArgs == [none |-> TRUE]

\* AccountCommand, without Exit (which calls no handler)
AccountCommandArgs(c) ==
    CASE c \in {"addresses", "balance", "consolidate", "new-address", "sync", "transactions"} ->
            {NoArgs}
      [] c = "faucet" ->
            [url : Option(FaucetUrlInputs), address : Option(AddressInputs)]
      [] c = "mint-native-token" ->
            [maximum_supply : DecInputs, foundry_metadata : Option(HexInputs)]
      [] c = "mint-nft" ->
            [address : Option(AddressInputs), immutable_metadata : Option(MetadataInputs),
             metadata : Option(MetadataInputs)]
      [] c \in {"send", "send-micro"} ->
            [address : AddressInputs, amount : AmountInputs]
      [] c = "send-native-token" ->
            [address : AddressInputs, token_id : TokenIdInputs, amount : DecInputs]
      [] c = "send-nft" ->
            [address : AddressInputs, nft_id : NftIdInputs]

AccountCommands ==
    { "addresses", "balance", "consolidate", "faucet", "mint-native-token", "mint-nft",
      "new-address", "send", "send-micro", "send-native-token", "send-nft", "sync",
      "transactions" }

\* AccountManagerCommand
AccountManagerCommandArgs(c) ==
    CASE c = "init" ->
            [secret_manager : SecretManagers, mnemonic : Option(MnemonicInputs),
             node : Option(NodeInputs)]
      [] c = "new" -> [alias : Option(AliasInputs)]
      [] c = "set-node" -> [url : NodeInputs \cup {DefaultNode}]
      [] c = "manager-sync" -> {NoArgs}

AccountManagerCommands == {"init", "new", "set-node", "manager-sync"}

(***************************************************************************)
(* The wallet SDK.  Its state is what the handlers can change through it;  *)
(* a call either fails and leaves the state alone or succeeds with the     *)
(* effect of the operation.                                                *)
(***************************************************************************)
TransactionOps ==
    { "consolidate_outputs", "mint_native_token", "mint_nfts", "send_amount",
      "send_micro_transaction", "send_native_tokens", "send_nft" }

SdkOk(w, ret) == [ok |-> TRUE, ret |-> ret, wallet |-> w]
SdkErr(w) == [ok |-> FALSE, ret |-> None, wallet |-> w]

NewAddress(w) == [key_index |-> Len(w.addresses), internal |-> FALSE]

SdkSuccesses(op, arg, w) ==
    CASE op = "list_addresses" -> {SdkOk(w, w.addresses)}
      [] op = "list_addresses_with_unspent_outputs" ->
            {SdkOk(w, IF w.synced THEN w.addresses ELSE <<>>)}
      [] op = "balance" -> {SdkOk(w, [txs |-> w.txs])}
      [] op = "list_transactions" -> {SdkOk(w, w.txs)}
      [] op \in TransactionOps ->
            IF w.txs < MaxTxs
            THEN {SdkOk([w EXCEPT !.txs = @ + 1, !.synced = FALSE], w.txs + 1)}
            ELSE {}
      [] op = "generate_addresses" ->
            IF Len(w.addresses) < MaxAddresses
            THEN {SdkOk([w EXCEPT !.addresses = Append(@, NewAddress(w))], <<NewAddress(w)>>)}
            ELSE {}
      [] op \in {"sync", "manager_sync"} ->
            {SdkOk([w EXCEPT !.synced = TRUE], [txs |-> w.txs])}
      [] op = "request_funds_from_faucet" ->
            {SdkOk([w EXCEPT !.synced = FALSE], "faucet response")}
      [] op = "account_manager_finish" ->
            {SdkOk([w EXCEPT !.initialised = TRUE, !.node = arg.node], "account manager")}
      [] op = "generate_mnemonic" -> {SdkOk(w, m) : m \in GeneratedMnemonics}
      [] op = "store_mnemonic" -> {SdkOk([w EXCEPT !.mnemonic = Some(arg)], "stored")}
      [] op = "create_account_finish" ->
            IF w.accounts < MaxAccounts
            THEN {SdkOk([w EXCEPT !.accounts = @ + 1], "account handle")}
            ELSE {}
      [] op = "set_client_options" -> {SdkOk([w EXCEPT !.node = arg.node], "set")}

SdkOutcomes(op, arg, w) == SdkSuccesses(op, arg, w) \cup {SdkErr(w)}

(***************************************************************************)
(* Results of a handler.                                                   *)
(***************************************************************************)
Running == [kind |-> "running"]
Ok == [kind |-> "ok"]
Err(e) == [kind |-> "err", err |-> e]
Panic == [kind |-> "panic"]

\* the error a failed SDK call hands to `?`
SdkError(op) == <<"sdk", op>>

CallRecord(op, arg, o) == [op |-> op, arg |-> arg, ok |-> o.ok, ret |-> o.ret]

(***************************************************************************)
(* Steps of a handler.                                                     *)
(***************************************************************************)
\* `return r`
Return(r) ==
    /\ pc' = "done"
    /\ result' = r
    /\ local' = None

\* the handler goes on at the position p with the locals l
Goto(p, l) ==
    /\ pc' = p
    /\ local' = l
    /\ result' = result

\* `call.await`: the SDK operation op is invoked with arg and ends as o
Await(op, arg, o) ==
    /\ calls' = Append(calls, CallRecord(op, arg, o))
    /\ wallet' = o.wallet

\* AwaitTryReturn with a failed call awaited a second time before the error
\* is returned
AwaitTryReturn_retry(op, arg, o) ==
    /\ calls' = IF o.ok THEN Append(calls, CallRecord(op, arg, o))
                ELSE Append(Append(calls, CallRecord(op, arg, o)), CallRecord(op, arg, o))
    /\ wallet' = o.wallet
    /\ IF o.ok THEN Return(Ok) ELSE Return(Err(SdkError(op)))

\* `call.await?` as the last call of a handler, followed by `Ok(())`
AwaitTryReturn(op, arg, o) ==
    /\ Await(op, arg, o)
    /\ IF o.ok THEN Return(Ok) ELSE Return(Err(SdkError(op)))

\* `call.await?` followed by more of the handler, from position p with locals l
AwaitTryGoto(op, arg, o, p, l) ==
    /\ Await(op, arg, o)
    /\ IF o.ok THEN Goto(p, l) ELSE Return(Err(SdkError(op)))

\* a step that awaits nothing
NoAwait ==
    /\ calls' = calls
    /\ wallet' = wallet

At(c, p) == cmd = c /\ pc = p

Frame == UNCHANGED <<wallet0, cmd, args>>

(***************************************************************************)
(* account.rs                                                              *)
(***************************************************************************)
\* print_address: the one call it makes
print_address(o) == CallRecord("list_addresses_with_unspent_outputs", None, o)

addresses_command ==
    /\ cmd = "addresses"
    /\ Frame
    /\ \/ /\ pc = "start"
          /\ \E o \in SdkOutcomes("list_addresses", None, wallet) :
                /\ Await("list_addresses", None, o)
                /\ IF ~o.ok THEN Return(Err(SdkError("list_addresses")))
                   ELSE IF o.ret = <<>> THEN Return(Ok)
                   ELSE Goto("print", [addresses |-> o.ret])
       \/ /\ pc = "print"
          /\ \E o \in SdkOutcomes("list_addresses_with_unspent_outputs", None, wallet) :
                /\ calls' = Append(calls, print_address(o))
                /\ wallet' = o.wallet
                /\ IF ~o.ok THEN Return(Err(SdkError("list_addresses_with_unspent_outputs")))
                   ELSE IF Tail(local.addresses) = <<>> THEN Return(Ok)
                   ELSE Goto("print", [addresses |-> Tail(local.addresses)])

\* balance_command with the account synchronised before its balance is read
balance_command_sync_first ==
    /\ At("balance", "start")
    /\ Frame
    /\ \E s \in SdkOutcomes("sync", None, wallet) :
          /\ s.ok
          /\ \E o \in SdkOutcomes("balance", None, s.wallet) :
                /\ calls' = calls \o <<CallRecord("sync", None, s), CallRecord("balance", None, o)>>
                /\ wallet' = o.wallet
                /\ IF o.ok THEN Return(Ok) ELSE Return(Err(SdkError("balance")))

balance_command ==
    /\ At("balance", "start")
    /\ Frame
    /\ \E o \in SdkOutcomes("balance", None, wallet) : AwaitTryReturn("balance", None, o)

consolidate_outputs_args == [force |-> TRUE, output_consolidation_threshold |-> None]

\* consolidate_command with the outputs consolidated a second time when the
\* first transaction went through
consolidate_command_twice ==
    /\ At("consolidate", "start")
    /\ Frame
    /\ \E o \in SdkOutcomes("consolidate_outputs", consolidate_outputs_args, wallet) :
          \E o2 \in SdkOutcomes("consolidate_outputs", consolidate_outputs_args, o.wallet) :
              /\ calls' = IF o.ok
                          THEN calls \o << CallRecord("consolidate_outputs", consolidate_outputs_args, o),
                                          CallRecord("consolidate_outputs", consolidate_outputs_args, o2) >>
                          ELSE Append(calls, CallRecord("consolidate_outputs", consolidate_outputs_args, o))
              /\ wallet' = IF o.ok THEN o2.wallet ELSE o.wallet
              /\ IF o.ok /\ o2.ok THEN Return(Ok) ELSE Return(Err(SdkError("consolidate_outputs")))

consolidate_command ==
    /\ At("consolidate", "start")
    /\ Frame
    /\ \E o \in SdkOutcomes("consolidate_outputs", consolidate_outputs_args, wallet) :
          AwaitTryReturn("consolidate_outputs", consolidate_outputs_args, o)

\* latest_address taking the first address of the list
latest_address_first(addresses) ==
    IF addresses = <<>> THEN ConvErr("NoAddressForFaucet")
    ELSE ConvOk(ToBech32(addresses[1]))

\* the latest address of the account, or NoAddressForFaucet
latest_address(addresses) ==
    IF addresses = <<>> THEN ConvErr("NoAddressForFaucet")
    ELSE ConvOk(ToBech32(addresses[Len(addresses)]))

faucet_url(url) == IF url.some THEN url.v ELSE DefaultFaucetUrl

faucet_request(address) == [url |-> faucet_url(args.url), address |-> address]

faucet_command ==
    /\ cmd = "faucet"
    /\ Frame
    /\ \/ /\ pc = "start"
          /\ args.address.some
          /\ \E o \in SdkOutcomes("request_funds_from_faucet", faucet_request(args.address.v), wallet) :
                AwaitTryReturn("request_funds_from_faucet", faucet_request(args.address.v), o)
       \/ /\ pc = "start"
          /\ ~args.address.some
          /\ \E o \in SdkOutcomes("list_addresses", None, wallet) :
                /\ Await("list_addresses", None, o)
                /\ IF ~o.ok THEN Return(Err(SdkError("list_addresses")))
                   ELSE IF ~latest_address(o.ret).ok THEN Return(Err(latest_address(o.ret).err))
                   ELSE Goto("request", [address |-> latest_address(o.ret).v])
       \/ /\ pc = "request"
          /\ \E o \in SdkOutcomes("request_funds_from_faucet", faucet_request(local.address), wallet) :
                AwaitTryReturn("request_funds_from_faucet", faucet_request(local.address), o)

\* native_token_options with metadata that does not decode dropped instead
\* of reported
native_token_options_lenient(maximum_supply, foundry_metadata) ==
    LET circulating == FromDecStr(maximum_supply)
        metadata == IF foundry_metadata.some THEN PrefixHexDecode(foundry_metadata.v)
                    ELSE ConvOk(None)
    IN  IF ~circulating.ok THEN ConvErr(<<"Miscellanous", circulating.err>>)
        ELSE ConvOk([ account_address |-> None,
                      circulating_supply |-> circulating.v,
                      maximum_supply |-> circulating.v,
                      foundry_metadata |->
                          IF foundry_metadata.some /\ metadata.ok THEN Some(metadata.v)
                          ELSE None ])

\* NativeTokenOptions { .. } of mint_native_token_command: the fields are
\* evaluated in order and the first failing conversion leaves the handler
native_token_options(maximum_supply, foundry_metadata) ==
    LET circulating == FromDecStr(maximum_supply)
        maximum == FromDecStr(maximum_supply)
        metadata == IF foundry_metadata.some THEN PrefixHexDecode(foundry_metadata.v)
                    ELSE ConvOk(None)
    IN  IF ~circulating.ok THEN ConvErr(<<"Miscellanous", circulating.err>>)
        ELSE IF ~maximum.ok THEN ConvErr(<<"Miscellanous", maximum.err>>)
        ELSE IF ~metadata.ok THEN ConvErr(<<"Miscellanous", metadata.err>>)
        ELSE ConvOk([ account_address |-> None,
                      circulating_supply |-> circulating.v,
                      maximum_supply |-> maximum.v,
                      foundry_metadata |->
                          IF foundry_metadata.some THEN Some(metadata.v) ELSE None ])

mint_native_token_command ==
    /\ cmd = "mint-native-token"
    /\ Frame
    /\ LET options == native_token_options(args.maximum_supply, args.foundry_metadata) IN
       \/ /\ pc = "start"
          /\ ~options.ok
          /\ NoAwait
          /\ Return(Err(options.err))
       \/ /\ pc = "start"
          /\ options.ok
          /\ \E o \in SdkOutcomes("mint_native_token", options.v, wallet) :
                AwaitTryReturn("mint_native_token", options.v, o)

nft_options(address, immutable_metadata, metadata) ==
    << [ address |-> address,
         immutable_metadata |->
            IF immutable_metadata.some THEN Some(AsBytes(immutable_metadata.v)) ELSE None,
         metadata |-> IF metadata.some THEN Some(AsBytes(metadata.v)) ELSE None ] >>

mint_nft_command ==
    /\ At("mint-nft", "start")
    /\ Frame
    /\ LET options == nft_options(args.address, args.immutable_metadata, args.metadata) IN
       \E o \in SdkOutcomes("mint_nfts", options, wallet) : AwaitTryReturn("mint_nfts", options, o)

new_address_command ==
    /\ cmd = "new-address"
    /\ Frame
    /\ \/ /\ pc = "start"
          /\ \E o \in SdkOutcomes("generate_addresses", [amount |-> 1], wallet) :
                AwaitTryGoto("generate_addresses", [amount |-> 1], o, "print",
                             [address |-> IF o.ok THEN o.ret[1] ELSE None])
       \/ /\ pc = "print"
          /\ \E o \in SdkOutcomes("list_addresses_with_unspent_outputs", None, wallet) :
                /\ calls' = Append(calls, print_address(o))
                /\ wallet' = o.wallet
                /\ IF o.ok THEN Return(Ok)
                   ELSE Return(Err(SdkError("list_addresses_with_unspent_outputs")))

send_command ==
    /\ At("send", "start")
    /\ Frame
    /\ LET outputs == <<[address |-> args.address, amount |-> args.amount]>> IN
       \E o \in SdkOutcomes("send_amount", outputs, wallet) : AwaitTryReturn("send_amount", outputs, o)

send_micro_command ==
    /\ At("send-micro", "start")
    /\ Frame
    /\ LET outputs == << [ address |-> args.address, amount |-> args.amount,
                           return_address |-> None, expiration |-> None ] >>
       IN  \E o \in SdkOutcomes("send_micro_transaction", outputs, wallet) :
              AwaitTryReturn("send_micro_transaction", outputs, o)

\* vec![AddressNativeTokens { .. }] of send_native_token_command
address_native_tokens(address, token_id, amount) ==
    LET id == TokenIdFromStr(token_id)
        value == FromDecStr(amount)
    IN  IF ~id.ok THEN ConvErr(<<"Block", id.err>>)
        ELSE IF ~value.ok THEN ConvErr(<<"Miscellanous", value.err>>)
        ELSE ConvOk(<<[address |-> address, native_tokens |-> <<(<<id.v, value.v>>)>>]>>)

send_native_token_command ==
    /\ cmd = "send-native-token"
    /\ Frame
    /\ LET outputs == address_native_tokens(args.address, args.token_id, args.amount) IN
       \/ /\ pc = "start"
          /\ ~outputs.ok
          /\ NoAwait
          /\ Return(Err(outputs.err))
       \/ /\ pc = "start"
          /\ outputs.ok
          /\ \E o \in SdkOutcomes("send_native_tokens", outputs.v, wallet) :
                AwaitTryReturn("send_native_tokens", outputs.v, o)

\* vec![AddressAndNftId { .. }] of send_nft_command
address_and_nft_id(address, nft_id) ==
    LET id == NftIdFromStr(nft_id) IN
    IF ~id.ok THEN ConvErr(<<"Block", id.err>>)
    ELSE ConvOk(<<[address |-> address, nft_id |-> id.v]>>)

send_nft_command ==
    /\ cmd = "send-nft"
    /\ Frame
    /\ LET outputs == address_and_nft_id(args.address, args.nft_id) IN
       \/ /\ pc = "start"
          /\ ~outputs.ok
          /\ NoAwait
          /\ Return(Err(outputs.err))
       \/ /\ pc = "start"
          /\ outputs.ok
          /\ \E o \in SdkOutcomes("send_nft", outputs.v, wallet) :
                AwaitTryReturn("send_nft", outputs.v, o)

account_sync_command ==
    /\ At("sync", "start")
    /\ Frame
    /\ \E o \in SdkOutcomes("sync", None, wallet) : AwaitTryReturn("sync", None, o)

transactions_command ==
    /\ At("transactions", "start")
    /\ Frame
    /\ \E o \in SdkOutcomes("list_transactions", None, wallet) :
          AwaitTryReturn("list_transactions", None, o)

(***************************************************************************)
(* account_manager.rs                                                      *)
(***************************************************************************)
\* ClientOptions::new().with_node(..)?.with_node_sync_disabled() of init_command
init_client_options(node) ==
    LET parsed == WithNode(IF node.some THEN node.v ELSE DefaultNode) IN
    IF ~parsed.ok THEN ConvErr(<<"Client", parsed.err>>)
    ELSE ConvOk([node |-> parsed.v, node_sync_disabled |-> TRUE])

\* init_generates_mnemonic generating a mnemonic in every case
init_generates_mnemonic_always(mnemonic) == TRUE

\* whether init_command has to generate the mnemonic
init_generates_mnemonic(mnemonic) == ~mnemonic.some

\* the outcomes of account_prompt, which runs the prompt of the new account
\* until the user leaves it
account_prompt_results == {Ok, Err(<<"account_prompt">>)}

init_command ==
    /\ cmd = "init"
    /\ Frame
    /\ LET options == init_client_options(args.node) IN
       \/ /\ pc = "start"
          /\ ~options.ok
          /\ NoAwait
          /\ Return(Err(options.err))
       \/ /\ pc = "start"
          /\ options.ok
          /\ \E o \in SdkOutcomes("account_manager_finish", options.v, wallet) :
                AwaitTryGoto("account_manager_finish", options.v, o, "mnemonic", None)
       \/ /\ pc = "mnemonic"
          /\ ~init_generates_mnemonic(args.mnemonic)
          /\ NoAwait
          /\ Goto("store", [mnemonic |-> args.mnemonic.v])
       \/ /\ pc = "mnemonic"
          /\ init_generates_mnemonic(args.mnemonic)
          /\ \E o \in SdkOutcomes("generate_mnemonic", None, wallet) :
                AwaitTryGoto("generate_mnemonic", None, o, "store", [mnemonic |-> o.ret])
       \/ /\ pc = "store"
          /\ args.secret_manager = "Stronghold"
          /\ \E o \in SdkOutcomes("store_mnemonic", local.mnemonic, wallet) :
                AwaitTryReturn("store_mnemonic", local.mnemonic, o)
       \/ /\ pc = "store"
          /\ args.secret_manager # "Stronghold"
          /\ NoAwait
          /\ Return(Panic)

new_command ==
    /\ cmd = "new"
    /\ Frame
    /\ \/ /\ pc = "start"
          /\ \E o \in SdkOutcomes("create_account_finish", [alias |-> args.alias], wallet) :
                AwaitTryGoto("create_account_finish", [alias |-> args.alias], o, "prompt", None)
       \/ /\ pc = "prompt"
          /\ NoAwait
          /\ \E r \in account_prompt_results : Return(r)

\* ClientOptions::new().with_node(&url)?.with_node_sync_disabled() of set_node_command
set_node_client_options(url) ==
    LET parsed == WithNode(url) IN
    IF ~parsed.ok THEN ConvErr(<<"Client", parsed.err>>)
    ELSE ConvOk([node |-> parsed.v, node_sync_disabled |-> TRUE])

set_node_command ==
    /\ cmd = "set-node"
    /\ Frame
    /\ LET options == set_node_client_options(args.url) IN
       \/ /\ pc = "start"
          /\ ~options.ok
          /\ NoAwait
          /\ Return(Err(options.err))
       \/ /\ pc = "start"
          /\ options.ok
          /\ \E o \in SdkOutcomes("set_client_options", options.v, wallet) :
                AwaitTryReturn("set_client_options", options.v, o)

sync_options == [try_collect_outputs |-> "All"]

sync_command ==
    /\ At("manager-sync", "start")
    /\ Frame
    /\ \E o \in SdkOutcomes("manager_sync", Some(sync_options), wallet) :
          AwaitTryReturn("manager_sync", Some(sync_options), o)

(***************************************************************************)
(* The command line: one command is parsed and its handler runs to its     *)
(* return before the next one is read.                                     *)
(***************************************************************************)
Start(c, a) ==
    /\ pc = "idle"
    /\ cmd' = c
    /\ args' = a
    /\ pc' = "start"
    /\ local' = None
    /\ calls' = <<>>
    /\ result' = Running
    /\ wallet0' = wallet
    /\ wallet' = wallet

\* AccountCli: a command of the prompt of an account
AccountCli ==
    /\ wallet.accounts > 0
    /\ \E c \in AccountCommands : \E a \in AccountCommandArgs(c) : Start(c, a)

\* AccountManagerCli: a command of the wallet; init makes the wallet, the
\* others need it
AccountManagerCli ==
    \E c \in AccountManagerCommands :
        /\ IF c = "init" THEN ~wallet.mnemonic.some ELSE wallet.initialised
        /\ \E a \in AccountManagerCommandArgs(c) : Start(c, a)

\* the handler has returned: its result goes to the caller, which reads
\* the next command
Returned ==
    /\ pc = "done"
    /\ pc' = "idle"
    /\ cmd' = "none"
    /\ args' = NoArgs
    /\ local' = None
    /\ calls' = <<>>
    /\ result' = Running
    /\ wallet0' = wallet
    /\ wallet' = wallet

NoWallet ==
    [ initialised |-> FALSE, node |-> None, mnemonic |-> None, accounts |-> 0,
      addresses |-> <<>>, txs |-> 0, synced |-> FALSE ]

Init ==
    /\ wallet = NoWallet
    /\ wallet0 = NoWallet
    /\ cmd = "none"
    /\ args = NoArgs
    /\ pc = "idle"
    /\ local = None
    /\ calls = <<>>
    /\ result = Running

Next ==
    \/ AccountCli
    \/ AccountManagerCli
    \/ addresses_command
    \/ balance_command
    \/ consolidate_command
    \/ faucet_command
    \/ mint_native_token_command
    \/ mint_nft_command
    \/ new_address_command
    \/ send_command
    \/ send_micro_command
    \/ send_native_token_command
    \/ send_nft_command
    \/ account_sync_command
    \/ transactions_command
    \/ init_command
    \/ new_command
    \/ set_node_command
    \/ sync_command
    \/ Returned

Spec == Init /\ [][Next]_vars

(***************************************************************************)
(* Properties.                                                             *)
(***************************************************************************)
Done == pc = "done"

CallsOf(op) == {i \in 1..Len(calls) : calls[i].op = op}

\* the conversions of the arguments of the running command fail
MintNativeTokenConversionFails ==
    \/ ~FromDecStr(args.maximum_supply).ok
    \/ args.foundry_metadata.some /\ ~PrefixHexDecode(args.foundry_metadata.v).ok

SendNativeTokenConversionFails ==
    \/ ~TokenIdFromStr(args.token_id).ok
    \/ ~FromDecStr(args.amount).ok

SendNftConversionFails == ~NftIdFromStr(args.nft_id).ok

SetNodeConversionFails == ~WithNode(args.url).ok

ConversionFails ==
    CASE cmd = "mint-native-token" -> MintNativeTokenConversionFails
      [] cmd = "send-native-token" -> SendNativeTokenConversionFails
      [] cmd = "send-nft" -> SendNftConversionFails
      [] cmd = "set-node" -> SetNodeConversionFails
      [] OTHER -> FALSE

\* the SDK operations an invocation has invoked, read in favour of C1: a
\* handler that left at a request value that could not be built (a string
\* that does not convert, a node url that does not parse) counts as having
\* invoked its one operation
SdkOperationsInvoked ==
    IF calls = <<>> /\ result.kind = "err" THEN 1 ELSE Len(calls)

\* C1, as stated: every handler that has returned has invoked exactly one
\* SDK operation, whatever its input and whatever the SDK answered.
C1_ExactlyOneSdkCall == Done => SdkOperationsInvoked = 1

\* C1, amended: the number of SDK operations of an invocation depends on the
\* handler.  balance, consolidate, mint-nft, send, send-micro, account sync,
\* transactions and manager sync invoke exactly one.  mint-native-token,
\* send-native-token, send-nft and set-node invoke one, and none when a
\* conversion of their arguments fails.  addresses invokes list_addresses and
\* then one list_addresses_with_unspent_outputs per listed address.
\* new-address invokes generate_addresses and then
\* list_addresses_with_unspent_outputs.  faucet invokes the faucet request
\* alone when the address is given and list_addresses before it otherwise.
\* init invokes the builder's finish, generate_mnemonic when no mnemonic is
\* given, and store_mnemonic.  new invokes the account builder's finish once
\* before it enters the account prompt.
C1_SdkCallsPerHandler ==
    Done =>
        CASE cmd \in { "balance", "consolidate", "mint-nft", "send", "send-micro", "sync",
                       "transactions", "manager-sync" } ->
                Len(calls) = 1
          [] cmd \in {"mint-native-token", "send-native-token", "send-nft", "set-node"} ->
                Len(calls) = IF ConversionFails THEN 0 ELSE 1
          [] cmd = "addresses" ->
                /\ Len(calls) >= 1
                /\ calls[1].op = "list_addresses"
                /\ \A i \in 2..Len(calls) : calls[i].op = "list_addresses_with_unspent_outputs"
                /\ Len(calls) <= 1 + Len(wallet0.addresses)
                /\ result = Ok => Len(calls) = 1 + Len(wallet0.addresses)
          [] cmd = "new-address" ->
                /\ Len(calls) \in {1, 2}
                /\ calls[1].op = "generate_addresses"
                /\ Len(calls) = 2 <=> calls[1].ok
          [] cmd = "faucet" ->
                IF args.address.some THEN Len(calls) = 1
                ELSE /\ Len(calls) \in {1, 2}
                     /\ calls[1].op = "list_addresses"
                     /\ Len(calls) = 2 <=> (calls[1].ok /\ calls[1].ret # <<>>)
          [] cmd = "init" ->
                /\ Len(calls) <= 3
                /\ Len(calls) = 0 <=> ~WithNode(IF args.node.some THEN args.node.v ELSE DefaultNode).ok
                /\ result = Ok => Len(calls) = IF args.mnemonic.some THEN 2 ELSE 3
          [] cmd = "new" ->
                Len(calls) = 1

\* an addresses command that listed two addresses has made three SDK calls
C1_Witness ==
    /\ Done
    /\ cmd = "addresses"
    /\ result = Ok
    /\ Len(calls) = 3

\* C2: a failed SDK call is the last call of its invocation, it was made
\* once, and the handler has returned the error of that call.
C2_SdkErrorPropagated ==
    \A i \in 1..Len(calls) :
        ~calls[i].ok =>
            /\ i = Len(calls)
            /\ Done
            /\ result = Err(SdkError(calls[i].op))

\* a send or a manager sync whose SDK call failed has returned
C2_Witness ==
    /\ Done
    /\ Len(calls) >= 1
    /\ ~calls[Len(calls)].ok
    /\ cmd \in {"send", "manager-sync"}

\* C3: in mint-native-token, send-native-token and send-nft a string that
\* does not convert makes the handler return an error without any SDK call
\* and with the wallet as it was; a call that is made carries the converted
\* values.
C3_ConversionBeforeSdkCall ==
    /\ cmd \in {"mint-native-token", "send-native-token", "send-nft"} /\ ConversionFails =>
          /\ calls = <<>>
          /\ wallet = wallet0
          /\ Done => result.kind = "err"
    /\ cmd = "mint-native-token" =>
          \A i \in CallsOf("mint_native_token") :
              /\ calls[i].arg.maximum_supply = FromDecStr(args.maximum_supply).v
              /\ calls[i].arg.circulating_supply = FromDecStr(args.maximum_supply).v
              /\ calls[i].arg.foundry_metadata =
                    IF args.foundry_metadata.some
                    THEN Some(PrefixHexDecode(args.foundry_metadata.v).v)
                    ELSE None
    /\ cmd = "send-native-token" =>
          \A i \in CallsOf("send_native_tokens") :
              calls[i].arg[1].native_tokens =
                  << <<TokenIdFromStr(args.token_id).v, FromDecStr(args.amount).v>> >>
    /\ cmd = "send-nft" =>
          \A i \in CallsOf("send_nft") : calls[i].arg[1].nft_id = NftIdFromStr(args.nft_id).v

\* a send-native-token with a valid token id and an amount that is no number
\* has returned an error
C3_Witness ==
    /\ Done
    /\ cmd = "send-native-token"
    /\ TokenIdFromStr(args.token_id).ok
    /\ ~FromDecStr(args.amount).ok
    /\ result.kind = "err"

\* C4: the faucet request is made for the given address, without listing the
\* addresses, when one is given, and for the last address list_addresses
\* returned otherwise; its url is the given one, or the default.
C4_FaucetAddressAndUrl ==
    cmd = "faucet" =>
        /\ args.address.some => CallsOf("list_addresses") = {}
        /\ \A i \in CallsOf("request_funds_from_faucet") :
              /\ calls[i].arg.url = IF args.url.some THEN args.url.v ELSE DefaultFaucetUrl
              /\ IF args.address.some
                 THEN i = 1 /\ calls[i].arg.address = args.address.v
                 ELSE /\ i = 2
                      /\ calls[1].op = "list_addresses"
                      /\ calls[1].ok
                      /\ calls[1].ret # <<>>
                      /\ calls[i].arg.address = ToBech32(calls[1].ret[Len(calls[1].ret)])

\* a faucet command without address and url has requested funds for the
\* latest of two addresses
C4_Witness ==
    /\ Done
    /\ cmd = "faucet"
    /\ ~args.address.some
    /\ ~args.url.some
    /\ Len(calls) = 2
    /\ Len(calls[1].ret) = 2
    /\ calls[2].ok

\* C5: init builds the manager with the given node, or the default one; it
\* stores the given mnemonic, or the one generate_mnemonic returned, and
\* calls generate_mnemonic only when no mnemonic is given.
C5_InitDefaults ==
    cmd = "init" =>
        /\ \A i \in CallsOf("account_manager_finish") :
              calls[i].arg.node = WithNode(IF args.node.some THEN args.node.v ELSE DefaultNode).v
        /\ args.mnemonic.some => CallsOf("generate_mnemonic") = {}
        /\ \A i \in CallsOf("store_mnemonic") :
              IF args.mnemonic.some THEN calls[i].arg = args.mnemonic.v
              ELSE /\ i > 1
                   /\ calls[i - 1].op = "generate_mnemonic"
                   /\ calls[i - 1].ok
                   /\ calls[i].arg = calls[i - 1].ret
        /\ Done /\ result = Ok =>
              /\ CallsOf("store_mnemonic") # {}
              /\ wallet.mnemonic = Some(calls[Len(calls)].arg)
              /\ CallsOf("generate_mnemonic") # {} <=> ~args.mnemonic.some

\* an init with a node and without a mnemonic has stored a generated one
C5_Witness ==
    /\ Done
    /\ cmd = "init"
    /\ result = Ok
    /\ args.node.some
    /\ ~args.mnemonic.some
    /\ wallet.mnemonic.v \in GeneratedMnemonics

\* C6: addresses, balance and transactions invoke only the queries
\* list_addresses, list_addresses_with_unspent_outputs, balance and
\* list_transactions, and leave the wallet as it was.
C6_ListingReadOnly ==
    cmd \in {"addresses", "balance", "transactions"} =>
        /\ \A i \in 1..Len(calls) :
              calls[i].op \in { "list_addresses", "list_addresses_with_unspent_outputs",
                                "balance", "list_transactions" }
        /\ wallet = wallet0

\* a balance command has returned in a wallet that is not synchronised
C6_Witness ==
    /\ Done
    /\ cmd = "balance"
    /\ result = Ok
    /\ ~wallet.synced
    /\ wallet.txs > 0

====
